---------------------------- MODULE Spec2Model ----------------------------
(* A model of w2r (src/main.go and the sqlc queries of the worddb package):  *)
(* a command line tool that keeps English words in one SQLite table.         *)
(*                                                                           *)
(* A string is a sequence of one-character strings.  One process slot runs   *)
(* one invocation of main() at a time; every SQL statement is one step, so   *)
(* that two processes interleave between the statements of AddWord.  Every   *)
(* statement may also fail for a reason outside the program (I/O error,      *)
(* locked database): the `fault` input of the statement steps.               *)
(* os.UserHomeDir is taken to succeed.                                       *)
EXTENDS Integers, Sequences, FiniteSets, TLC

(***************************************************************************)
(* Bounds of the model.                                                    *)
(***************************************************************************)
MaxCount == 3
MaxLen == 6

(***************************************************************************)
(* Characters and strings.                                                 *)
(***************************************************************************)
LowerSeq ==
  << "a","b","c","d","e","f","g","h","i","j","k","l","m",
     "n","o","p","q","r","s","t","u","v","w","x","y","z" >>

UpperSeq ==
  << "A","B","C","D","E","F","G","H","I","J","K","L","M",
     "N","O","P","Q","R","S","T","U","V","W","X","Y","Z" >>

Range(f) == { f[i] : i \in DOMAIN f }

\* The white space strings.TrimSpace removes (the ASCII part of it).
Space == { " ", "\t", "\n", "\r", "\f" }

\* unicode.ToLower on one character.
LowerChar(c) ==
  IF c \in Range(UpperSeq)
    THEN LowerSeq[CHOOSE i \in DOMAIN UpperSeq : UpperSeq[i] = c]
    ELSE c

\* strings.ToLower
ToLower(s) == [ i \in DOMAIN s |-> LowerChar(s[i]) ]

RECURSIVE TrimLeft(_)
TrimLeft(s) ==
  IF s # << >> /\ Head(s) \in Space THEN TrimLeft(Tail(s)) ELSE s

RECURSIVE TrimRight(_)
TrimRight(s) ==
  IF s # << >> /\ s[Len(s)] \in Space
    THEN TrimRight(SubSeq(s, 1, Len(s) - 1))
    ELSE s

\* strings.TrimSpace
TrimSpace(s) == TrimRight(TrimLeft(s))

\* strings.Split(s, ","): scans s once; `cur` is the piece being read.
RECURSIVE SplitFrom(_, _, _)
SplitFrom(s, cur, acc) ==
  IF s = << >> THEN Append(acc, cur)
  ELSE IF Head(s) = "," THEN SplitFrom(Tail(s), << >>, Append(acc, cur))
  ELSE SplitFrom(Tail(s), Append(cur, Head(s)), acc)

Split(s) == SplitFrom(s, << >>, << >>)

\* A variant of isValidWord: the pattern ^[a-z]*$.
isValidWordNoAnchor(s) == \A i \in DOMAIN s : s[i] \in Range(LowerSeq)

\* regexp.MatchString("^[a-z]+$", s)
isValidWord(s) == Len(s) >= 1 /\ \A i \in DOMAIN s : s[i] \in Range(LowerSeq)

\* A variant of filterLoop: no strings.ToLower.
RECURSIVE filterLoopNoLower(_, _)
filterLoopNoLower(pieces, results) ==
  IF pieces = << >> THEN results
  ELSE LET word == TrimSpace(Head(pieces))
       IN  filterLoopNoLower(Tail(pieces),
             IF isValidWord(word) THEN Append(results, word) ELSE results)

\* the loop of filterWords over the pieces
RECURSIVE filterLoop(_, _)
filterLoop(pieces, results) ==
  IF pieces = << >> THEN results
  ELSE LET word == ToLower(TrimSpace(Head(pieces)))
       IN  filterLoop(Tail(pieces),
             IF isValidWord(word) THEN Append(results, word) ELSE results)

filterWords(s) == filterLoop(Split(s), << >>)

(***************************************************************************)
(* The store: the table `word` of the SQLite file, and the statements of   *)
(* the worddb package.  A row is                                           *)
(*   [word, zh_trans, added_count, lookup_count];                          *)
(* zh_trans is a sql.NullString, [valid, str].  The table is a sequence of *)
(* rows in insertion order, so that PRIMARY KEY is something INSERT has to *)
(* enforce.  Each statement returns [err, ...] and the new rows.           *)
(***************************************************************************)
NullString == [ valid |-> FALSE, str |-> << >> ]

RowsOf(rws, w) == { i \in DOMAIN rws : rws[i].word = w }

Has(rws, w) == RowsOf(rws, w) # { }

RowOf(rws, w) == rws[CHOOSE i \in DOMAIN rws : rws[i].word = w]

\* CREATE TABLE word (word TEXT PRIMARY KEY, ...): fails when the table exists.
CreateTable(sch, rws, fault) ==
  IF sch \/ fault
    THEN [ err |-> TRUE,  schema |-> sch,  rows |-> rws ]
    ELSE [ err |-> FALSE, schema |-> TRUE, rows |-> << >> ]

\* SELECT COUNT(*) FROM word WHERE word = ?  (the count is 0 on an error)
CountWord(sch, rws, w, fault) ==
  IF ~sch \/ fault
    THEN [ err |-> TRUE,  count |-> 0 ]
    ELSE [ err |-> FALSE, count |-> Cardinality(RowsOf(rws, w)) ]

\* A variant of CreateWord: the column word is no PRIMARY KEY.
CreateWordNoKey(sch, rws, w, zh, fault) ==
  IF ~sch \/ fault
    THEN [ err |-> TRUE, rows |-> rws ]
    ELSE [ err |-> FALSE,
           rows |-> Append(rws, [ word |-> w, zh_trans |-> zh,
                                  added_count |-> 0, lookup_count |-> 0 ]) ]

\* A variant of CreateWord: VALUES (?, ?, 1, 0).
CreateWordFromOne(sch, rws, w, zh, fault) ==
  IF ~sch \/ fault \/ Has(rws, w)
    THEN [ err |-> TRUE, rows |-> rws ]
    ELSE [ err |-> FALSE,
           rows |-> Append(rws, [ word |-> w, zh_trans |-> zh,
                                  added_count |-> 1, lookup_count |-> 0 ]) ]

\* INSERT INTO word (word, zh_trans, added_count, lookup_count)
\* VALUES (?, ?, 0, 0): fails on a word the table holds (PRIMARY KEY).
CreateWord(sch, rws, w, zh, fault) ==
  IF ~sch \/ fault \/ Has(rws, w)
    THEN [ err |-> TRUE, rows |-> rws ]
    ELSE [ err |-> FALSE,
           rows |-> Append(rws, [ word |-> w, zh_trans |-> zh,
                                  added_count |-> 0, lookup_count |-> 0 ]) ]

\* A variant of AddWordCount: no WHERE clause.
AddWordCountAllRows(sch, rws, w, fault) ==
  IF ~sch \/ fault
    THEN [ err |-> TRUE, rows |-> rws ]
    ELSE [ err |-> FALSE,
           rows |-> [ i \in DOMAIN rws |->
                        [ rws[i] EXCEPT !.added_count = @ + 1 ] ] ]

\* A variant of AddWordCount: added_count=added_count-1.
AddWordCountDown(sch, rws, w, fault) ==
  IF ~sch \/ fault
    THEN [ err |-> TRUE, rows |-> rws ]
    ELSE [ err |-> FALSE,
           rows |-> [ i \in DOMAIN rws |->
                        IF rws[i].word = w
                          THEN [ rws[i] EXCEPT !.added_count = @ - 1 ]
                          ELSE rws[i] ] ]

\* UPDATE word set added_count=added_count+1 WHERE word = ?
AddWordCount(sch, rws, w, fault) ==
  IF ~sch \/ fault
    THEN [ err |-> TRUE, rows |-> rws ]
    ELSE [ err |-> FALSE,
           rows |-> [ i \in DOMAIN rws |->
                        IF rws[i].word = w
                          THEN [ rws[i] EXCEPT !.added_count = @ + 1 ]
                          ELSE rws[i] ] ]

\* A variant of DeleteWord: the comparison ignores case.
DeleteWordFold(sch, rws, w, fault) ==
  IF ~sch \/ fault
    THEN [ err |-> TRUE, rows |-> rws ]
    ELSE [ err |-> FALSE,
           rows |-> SelectSeq(rws, LAMBDA r : ToLower(r.word) # ToLower(w)) ]

\* DELETE FROM word WHERE word = ?
DeleteWord(sch, rws, w, fault) ==
  IF ~sch \/ fault
    THEN [ err |-> TRUE, rows |-> rws ]
    ELSE [ err |-> FALSE, rows |-> SelectSeq(rws, LAMBDA r : r.word # w) ]

\* SELECT * FROM word  (no rows on an error)
Listword(sch, rws, fault) ==
  IF ~sch \/ fault
    THEN [ err |-> TRUE,  rows |-> << >> ]
    ELSE [ err |-> FALSE, rows |-> rws ]

\* The lines ShowSummary prints after the header: NULL prints as "".
Summary(listed) ==
  [ i \in DOMAIN listed |->
      [ word        |-> listed[i].word,
        added_count |-> listed[i].added_count,
        lookup_count |-> listed[i].lookup_count,
        zh_trans    |-> IF listed[i].zh_trans.valid
                          THEN listed[i].zh_trans.str ELSE << >> ] ]

(***************************************************************************)
(* The command line: every flag is [set, val]; val is the flag's default   *)
(* when the flag is not given.                                             *)
(***************************************************************************)
DefaultPort == 8080
MaxPort == 65535

BoolFlag ==
  { [ set |-> FALSE, val |-> FALSE ],
    [ set |-> TRUE,  val |-> TRUE ],
    [ set |-> TRUE,  val |-> FALSE ] }

PortFlag ==
  { [ set |-> FALSE, val |-> DefaultPort ] }
    \cup { [ set |-> TRUE, val |-> n ] : n \in { 0, MaxPort + 1 } }

StrFlag(S) ==
  { [ set |-> FALSE, val |-> << >> ] } \cup { [ set |-> TRUE, val |-> x ] : x \in S }

\* The arguments of -a and of -d the user gives in the model.
AddArgs ==
  { << >>,
    << "b", ",", "a" >>,
    << "a", ",", "b", ",", "a" >>,
    << " ", "A", ",", ",", "2" >> }

DelArgs == { << >>, << "a" >>, << "A" >> }

CliFlags ==
  [ v : BoolFlag, D : BoolFlag, p : PortFlag, init : BoolFlag,
    a : StrFlag(AddArgs), d : StrFlag(DelArgs), s : BoolFlag ]

NoFlags ==
  [ v |-> [ set |-> FALSE, val |-> FALSE ],
    D |-> [ set |-> FALSE, val |-> FALSE ],
    p |-> [ set |-> FALSE, val |-> DefaultPort ],
    init |-> [ set |-> FALSE, val |-> FALSE ],
    a |-> [ set |-> FALSE, val |-> << >> ],
    d |-> [ set |-> FALSE, val |-> << >> ],
    s |-> [ set |-> FALSE, val |-> FALSE ] ]

\* flag.NFlag(): the number of flags that have been set
NFlag(fl) == Cardinality({ f \in DOMAIN fl : fl[f].set })

\* Two invocations `-a <words>` and nothing else.
ConcArgs == { << "a" >>, << "a", ",", "a" >>, << "b", ",", "a" >> }

ConcFlags == { [ NoFlags EXCEPT !.a = [ set |-> TRUE, val |-> x ] ] : x \in ConcArgs }

\* Every string of at most MaxLen characters of FilterChars, as the -a argument.
FilterChars == { "a", "A", "2", " ", "," }

Strings(n) == UNION { [ 1..k -> FilterChars ] : k \in 0..n }

FilterFlags ==
  { [ NoFlags EXCEPT !.a = [ set |-> TRUE, val |-> x ] ] : x \in Strings(MaxLen) }

\* The words the model's add invocations can produce.
WordSet == UNION { Range(filterWords(x)) : x \in AddArgs \cup ConcArgs }

\* What follows "/word/" in the path of a request.
ReqRest == { << >>, << "/" >>, << "a" >>, << "a", "/" >> }

Procs == { 1, 2 }

(***************************************************************************)
(* State.                                                                  *)
(***************************************************************************)
VARIABLES
  schema,    \* the table `word` exists in the database file
  rows,      \* its rows, in insertion order
  pc,        \* per process: where the invocation stands
  flags,     \* per process: the parsed flags
  action,    \* per process: the branch of main() taken
  opened,    \* per process: getDb() was called
  words,     \* per process: filterWords of the -a argument
  idx,       \* per process: the index of the word AddWord is called on
  cnt,       \* per process: the count AddWord read
  outcome,   \* per process: "running", "ok" (exit 0), "fatal" (log.Fatal), "killed"
  out,       \* per process: what was printed, or the last HTTP response
  log,       \* per process: the messages logged
  failed,    \* per process: a store statement of this invocation returned an error
  store0,    \* per process: the store when the invocation started
  adds       \* per word: AddWord calls that returned since the word had no row

vars ==
  << schema, rows, pc, flags, action, opened, words, idx, cnt, outcome, out,
     log, failed, store0, adds >>

NoOut == [ kind |-> "none", code |-> 0, lines |-> << >>, text |-> << >> ]

ProcInit ==
  /\ pc = [ p \in Procs |-> "idle" ]
  /\ flags = [ p \in Procs |-> NoFlags ]
  /\ action = [ p \in Procs |-> "none" ]
  /\ opened = [ p \in Procs |-> FALSE ]
  /\ words = [ p \in Procs |-> << >> ]
  /\ idx = [ p \in Procs |-> 1 ]
  /\ cnt = [ p \in Procs |-> 0 ]
  /\ outcome = [ p \in Procs |-> "running" ]
  /\ out = [ p \in Procs |-> NoOut ]
  /\ log = [ p \in Procs |-> << >> ]
  /\ failed = [ p \in Procs |-> FALSE ]
  /\ store0 = [ p \in Procs |-> [ schema |-> schema, rows |-> rows ] ]
  /\ adds = [ w \in WordSet |-> Cardinality(RowsOf(rows, w)) ]

\* No database file yet.
Init ==
  /\ schema = FALSE
  /\ rows = << >>
  /\ ProcInit


(***************************************************************************)
(* main(): the flags decide the branch.                                    *)
(***************************************************************************)
\* A variant of Dispatch: -d is tested before -a.
DispatchDeleteFirst(fl) ==
  IF NFlag(fl) = 0 THEN "usage"
  ELSE IF fl.v.val THEN "version"
  ELSE IF fl.D.val THEN "serve"
  ELSE IF fl.init.val THEN "init"
  ELSE IF fl.d.val # << >> THEN "delete"
  ELSE IF fl.a.val # << >> THEN "add"
  ELSE IF fl.s.val THEN "show"
  ELSE "none"

\* The chain of ifs of main(); "none" is control falling off its end.
Dispatch(fl) ==
  IF NFlag(fl) = 0 THEN "usage"
  ELSE IF fl.v.val THEN "version"
  ELSE IF fl.D.val THEN "serve"
  ELSE IF fl.init.val THEN "init"
  ELSE IF fl.a.val # << >> THEN "add"
  ELSE IF fl.d.val # << >> THEN "delete"
  ELSE IF fl.s.val THEN "show"
  ELSE "none"

\* *port <= 0 || *port > 65535
BadPort(n) == n <= 0 \/ n > MaxPort

\* A process starts: main() up to its first statement on the store.
Main(p, F) ==
  /\ pc[p] = "idle"
  /\ \E fl \in F :
       LET act == Dispatch(fl)
           ws  == IF act = "add" THEN filterWords(fl.a.val) ELSE << >>
           bad == act = "serve" /\ BadPort(fl.p.val)
       IN  /\ act = "add" =>
                \A i \in DOMAIN rows : rows[i].added_count + Len(ws) <= MaxCount
           /\ flags' = [ flags EXCEPT ![p] = fl ]
           /\ action' = [ action EXCEPT ![p] = act ]
           /\ opened' = [ opened EXCEPT ![p] = act \notin { "usage", "version" } ]
           /\ words' = [ words EXCEPT ![p] = ws ]
           /\ idx' = [ idx EXCEPT ![p] = 1 ]
           /\ cnt' = [ cnt EXCEPT ![p] = 0 ]
           /\ pc' = [ pc EXCEPT ![p] =
                CASE act \in { "usage", "version", "none" } -> "done"
                  [] act = "serve"  -> IF bad THEN "done" ELSE "listen"
                  [] act = "init"   -> "init"
                  [] act = "add"    -> IF ws = << >> THEN "done" ELSE "count"
                  [] act = "delete" -> "delete"
                  [] act = "show"   -> "show" ]
           /\ outcome' = [ outcome EXCEPT ![p] =
                CASE act \in { "usage", "version", "none" } -> "ok"
                  [] act = "serve" /\ bad -> "fatal"
                  [] act = "add" /\ ws = << >> -> "ok"
                  [] OTHER -> "running" ]
           /\ out' = [ out EXCEPT ![p] =
                IF act \in { "usage", "version" }
                  THEN [ NoOut EXCEPT !.kind = act ] ELSE NoOut ]
           /\ log' = [ log EXCEPT ![p] = IF bad THEN << "fatal" >> ELSE << >> ]
           /\ failed' = [ failed EXCEPT ![p] = FALSE ]
           /\ store0' = [ store0 EXCEPT ![p] = [ schema |-> schema, rows |-> rows ] ]
  /\ UNCHANGED << schema, rows, adds >>

\* The process is gone: its variables with it.
Exit(p) ==
  /\ pc[p] = "done"
  /\ pc' = [ pc EXCEPT ![p] = "idle" ]
  /\ flags' = [ flags EXCEPT ![p] = NoFlags ]
  /\ action' = [ action EXCEPT ![p] = "none" ]
  /\ opened' = [ opened EXCEPT ![p] = FALSE ]
  /\ words' = [ words EXCEPT ![p] = << >> ]
  /\ idx' = [ idx EXCEPT ![p] = 1 ]
  /\ cnt' = [ cnt EXCEPT ![p] = 0 ]
  /\ outcome' = [ outcome EXCEPT ![p] = "running" ]
  /\ out' = [ out EXCEPT ![p] = NoOut ]
  /\ log' = [ log EXCEPT ![p] = << >> ]
  /\ failed' = [ failed EXCEPT ![p] = FALSE ]
  /\ store0' = [ store0 EXCEPT ![p] = [ schema |-> schema, rows |-> rows ] ]
  /\ UNCHANGED << schema, rows, adds >>

\* return from main(): exit status 0
Return(p) ==
  /\ pc' = [ pc EXCEPT ![p] = "done" ]
  /\ outcome' = [ outcome EXCEPT ![p] = "ok" ]

\* A variant of Fatal: the message is logged and main() returns.
FatalLogOnly(p) ==
  /\ pc' = [ pc EXCEPT ![p] = "done" ]
  /\ outcome' = [ outcome EXCEPT ![p] = "ok" ]
  /\ log' = [ log EXCEPT ![p] = Append(@, "fatal") ]

\* log.Fatal(err): the message, then os.Exit(1)
Fatal(p) ==
  /\ pc' = [ pc EXCEPT ![p] = "done" ]
  /\ outcome' = [ outcome EXCEPT ![p] = "fatal" ]
  /\ log' = [ log EXCEPT ![p] = Append(@, "fatal") ]

(***************************************************************************)
(* WordDB.Init                                                             *)
(***************************************************************************)
InitStep(p) ==
  /\ pc[p] = "init"
  /\ \E fault \in BOOLEAN :
       LET r == CreateTable(schema, rows, fault)
       IN  /\ schema' = r.schema
           /\ rows' = r.rows
           /\ failed' = [ failed EXCEPT ![p] = @ \/ r.err ]
           /\ log' = [ log EXCEPT ![p] =
                Append(@, IF r.err THEN "init error" ELSE "init database") ]
  /\ Return(p)
  /\ UNCHANGED << flags, action, opened, words, idx, cnt, out, store0, adds >>

(***************************************************************************)
(* WordDB.AddWord on words[p][idx[p]], in two statements.                  *)
(***************************************************************************)
AddWordCountStep(p) ==
  /\ pc[p] = "count"
  /\ \E fault \in BOOLEAN :
       LET r == CountWord(schema, rows, words[p][idx[p]], fault)
       IN  /\ cnt' = [ cnt EXCEPT ![p] = r.count ]
           /\ failed' = [ failed EXCEPT ![p] = @ \/ r.err ]
           /\ pc' = [ pc EXCEPT ![p] = IF r.count = 0 THEN "create" ELSE "incr" ]
  /\ UNCHANGED << schema, rows, flags, action, opened, words, idx, outcome, out,
                  log, store0, adds >>

\* AddWord returned: the loop of main() goes on, or main() returns.
NextWord(p, msg) ==
  /\ idx' = [ idx EXCEPT ![p] = @ + 1 ]
  /\ log' = [ log EXCEPT ![p] = Append(@, msg) ]
  /\ adds' = [ adds EXCEPT ![words[p][idx[p]]] = @ + 1 ]
  /\ IF idx[p] < Len(words[p])
       THEN /\ pc' = [ pc EXCEPT ![p] = "count" ]
            /\ UNCHANGED outcome
       ELSE Return(p)

AddWordWrite(p, r, msg) ==
  /\ rows' = r.rows
  /\ failed' = [ failed EXCEPT ![p] = @ \/ r.err ]
  /\ IF r.err
       THEN Fatal(p) /\ UNCHANGED << idx, adds >>
       ELSE NextWord(p, msg)
  /\ UNCHANGED << schema, flags, action, opened, words, cnt, out, store0 >>

AddWordCreateStep(p) ==
  /\ pc[p] = "create"
  /\ \E fault \in BOOLEAN :
       AddWordWrite(p, CreateWord(schema, rows, words[p][idx[p]], NullString, fault),
                    "add word")

AddWordIncrStep(p) ==
  /\ pc[p] = "incr"
  /\ \E fault \in BOOLEAN :
       AddWordWrite(p, AddWordCount(schema, rows, words[p][idx[p]], fault),
                    "added_count++")

(***************************************************************************)
(* WordDB.DelWord on the -d argument, and WordDB.ShowSummary                             *)
(***************************************************************************)
DelWordStep(p) ==
  /\ pc[p] = "delete"
  /\ \E fault \in BOOLEAN :
       LET w == flags[p].d.val
           r == DeleteWord(schema, rows, w, fault)
       IN  /\ rows' = r.rows
           /\ failed' = [ failed EXCEPT ![p] = @ \/ r.err ]
           /\ IF r.err
                THEN Fatal(p) /\ UNCHANGED adds
                ELSE /\ Return(p)
                     /\ log' = [ log EXCEPT ![p] = Append(@, "del word") ]
                     /\ adds' = [ x \in WordSet |-> IF x = w THEN 0 ELSE adds[x] ]
  /\ UNCHANGED << schema, flags, action, opened, words, idx, cnt, out, store0 >>

ShowSummaryStep(p) ==
  /\ pc[p] = "show"
  /\ \E fault \in BOOLEAN :
       LET r == Listword(schema, rows, fault)
       IN  /\ failed' = [ failed EXCEPT ![p] = @ \/ r.err ]
           /\ out' = [ out EXCEPT ![p] =
                [ NoOut EXCEPT !.kind = "summary", !.lines = Summary(r.rows) ] ]
  /\ Return(p)
  /\ UNCHANGED << schema, rows, flags, action, opened, words, idx, cnt, log,
                  store0, adds >>

(***************************************************************************)
(* WordDB.RunWebServer                                                     *)
(***************************************************************************)
\* strings.TrimSuffix(word, "/")
TrimSuffixSlash(s) ==
  IF s # << >> /\ s[Len(s)] = "/" THEN SubSeq(s, 1, Len(s) - 1) ELSE s

\* http.ListenAndServe: binds, or returns an error that log.Fatal reports.
ListenStep(p) ==
  /\ pc[p] = "listen"
  /\ \E bound \in BOOLEAN :
       IF bound
         THEN /\ pc' = [ pc EXCEPT ![p] = "serving" ]
              /\ log' = [ log EXCEPT ![p] = Append(@, "Start web server") ]
              /\ UNCHANGED outcome
         ELSE /\ pc' = [ pc EXCEPT ![p] = "done" ]
              /\ outcome' = [ outcome EXCEPT ![p] = "fatal" ]
              /\ log' = [ log EXCEPT ![p] = << "Start web server", "fatal" >> ]
  /\ UNCHANGED << schema, rows, flags, action, opened, words, idx, cnt, out,
                  failed, store0, adds >>

\* GET / : the table of all words, or 500 when the template fails.
HandleIndex(p) ==
  /\ pc[p] = "serving"
  /\ \E fault \in BOOLEAN, rendered \in BOOLEAN :
       LET r == Listword(schema, rows, fault)
       IN  /\ failed' = [ failed EXCEPT ![p] = @ \/ r.err ]
           /\ out' = [ out EXCEPT ![p] =
                IF rendered
                  THEN [ NoOut EXCEPT !.kind = "http", !.code = 200,
                                      !.lines = Summary(r.rows) ]
                  ELSE [ NoOut EXCEPT !.kind = "http", !.code = 500 ] ]
  /\ UNCHANGED << schema, rows, pc, flags, action, opened, words, idx, cnt,
                  outcome, log, store0, adds >>

\* GET /word/<rest>
HandleWord(p) ==
  /\ pc[p] = "serving"
  /\ \E rest \in ReqRest :
       LET word == TrimSuffixSlash(rest)
       IN  out' = [ out EXCEPT ![p] =
             IF word = << >>
               THEN [ NoOut EXCEPT !.kind = "http", !.code = 404 ]
               ELSE [ NoOut EXCEPT !.kind = "http", !.code = 301, !.text = word ] ]
  /\ UNCHANGED << schema, rows, pc, flags, action, opened, words, idx, cnt,
                  outcome, log, failed, store0, adds >>

\* The server runs until the process is killed.
Kill(p) ==
  /\ pc[p] = "serving"
  /\ pc' = [ pc EXCEPT ![p] = "done" ]
  /\ outcome' = [ outcome EXCEPT ![p] = "killed" ]
  /\ UNCHANGED << schema, rows, flags, action, opened, words, idx, cnt, out,
                  log, failed, store0, adds >>

(***************************************************************************)
(* Specifications.                                                         *)
(***************************************************************************)
Step(p) ==
  \/ InitStep(p)
  \/ AddWordCountStep(p)
  \/ AddWordCreateStep(p)
  \/ AddWordIncrStep(p)
  \/ DelWordStep(p)
  \/ ShowSummaryStep(p)
  \/ ListenStep(p)
  \/ HandleIndex(p)
  \/ HandleWord(p)
  \/ Kill(p)

\* One user, one invocation after the other.
Next == Main(1, CliFlags) \/ Step(1) \/ Exit(1)

Spec == Init /\ [][Next]_vars

\* Two processes, each one `-a` invocation, on a store that init has created.
InitConc ==
  /\ schema = TRUE
  /\ rows \in { << >>,
                << [ word |-> << "a" >>, zh_trans |-> NullString,
                     added_count |-> 0, lookup_count |-> 0 ] >> }
  /\ ProcInit

NextConc ==
  \E p \in Procs :
    \/ Main(p, ConcFlags)
    \/ AddWordCountStep(p)
    \/ AddWordCreateStep(p)
    \/ AddWordIncrStep(p)

SpecConc == InitConc /\ [][NextConc]_vars

\* filterWords on every short string.
InitFilter ==
  /\ schema = TRUE
  /\ rows = << >>
  /\ ProcInit

NextFilter == Main(1, FilterFlags) \/ Exit(1)

SpecFilter == InitFilter /\ [][NextFilter]_vars


(***************************************************************************)
(* Properties.                                                             *)
(***************************************************************************)
A == << "a" >>
B == << "b" >>

\* The word AddWord is working on in process p.
CurWord(p) == words[p][idx[p]]

\* The distinct words of a table.
WordsIn(rws) == { rws[i].word : i \in DOMAIN rws }

\* C1: a word that n >= 1 calls of AddWord have added since it had no record
\* has exactly one record, with added_count = n - 1; a word no call has added
\* has none.
C1_AddedCountIsAddsMinusOne ==
  \A w \in WordSet :
    IF adds[w] = 0
      THEN ~Has(rows, w)
      ELSE /\ Cardinality(RowsOf(rows, w)) = 1
           /\ RowOf(rows, w).added_count = adds[w] - 1

\* Three adds of "a": one record, added_count 2.
C1_Witness ==
  /\ adds[A] = 3
  /\ Cardinality(RowsOf(rows, A)) = 1
  /\ RowOf(rows, A).added_count = 2

\* C2: no step lowers added_count or lookup_count of a record that exists
\* before and after the step.
C2_CountersNeverDecrease ==
  [][ \A w \in WordsIn(rows) :
        Has(rows', w) =>
          /\ RowOf(rows', w).added_count >= RowOf(rows, w).added_count
          /\ RowOf(rows', w).lookup_count >= RowOf(rows, w).lookup_count ]_vars

\* An add invocation has raised the added_count of a record from 1 to at least 2.
C2_Witness ==
  /\ pc[1] = "done"
  /\ action[1] = "add"
  /\ \E w \in WordsIn(store0[1].rows) :
       /\ Has(rows, w)
       /\ RowOf(store0[1].rows, w).added_count = 1
       /\ RowOf(rows, w).added_count >= 2

\* rws with the added_count of the record of w one higher, all else as it was.
BumpOnly(rws, w) ==
  [ i \in DOMAIN rws |->
      IF rws[i].word = w
        THEN [ word |-> rws[i].word, zh_trans |-> rws[i].zh_trans,
               added_count |-> rws[i].added_count + 1,
               lookup_count |-> rws[i].lookup_count ]
        ELSE rws[i] ]

\* C3: a step of AddWord on a word that has a record either leaves the table
\* as it is or raises that record's added_count by one and changes nothing
\* else; the step with which AddWord returns does the latter.  No record ever
\* has a translation or a lookup_count other than 0.
C3_AddOnExistingOnlyBumps ==
  /\ [][ ( /\ pc[1] \in { "count", "create", "incr" }
           /\ Has(rows, CurWord(1)) ) =>
           /\ rows' = rows \/ rows' = BumpOnly(rows, CurWord(1))
           /\ schema' = schema
           /\ idx'[1] = idx[1] + 1 => rows' = BumpOnly(rows, CurWord(1)) ]_vars
  /\ [](\A i \in DOMAIN rows :
          rows[i].lookup_count = 0 /\ rows[i].zh_trans = NullString)

\* The second add of a word has returned while another word has a record too.
C3_Witness ==
  /\ action[1] = "add"
  /\ log[1] # << >>
  /\ log[1][Len(log[1])] = "added_count++"
  /\ Len(rows) = 2
  /\ \E i \in DOMAIN rows : rows[i].added_count = 0
  /\ \E i \in DOMAIN rows : rows[i].added_count = 2

\* rws without the records of w, the others in their order.
Without(rws, w) == SelectSeq(rws, LAMBDA r : r.word # w)

\* C4: the DELETE of a word fails only when the statement cannot run (no
\* table, or a fault of the store), never because the word has no record; a
\* delete that succeeds removes the records of that word and leaves every
\* other record as it is, so the table and the summary are unchanged when the
\* word had no record; one that fails changes nothing; and deleting the same
\* word again changes nothing more.
C4_DeleteAbsentIsNoOp ==
  /\ [][ pc[1] = "delete" =>
           LET w == flags[1].d.val
           IN  /\ pc'[1] = "done"
               /\ schema' = schema
               /\ outcome'[1] = "ok" => rows' = Without(rows, w)
               /\ outcome'[1] = "fatal" => rows' = rows
               /\ (outcome'[1] = "ok" /\ ~Has(rows, w)) =>
                    rows' = rows /\ Summary(rows') = Summary(rows) ]_vars
  /\ [](\A w \in DelArgs \cup WordSet :
          LET once  == DeleteWord(schema, rows, w, FALSE)
              twice == DeleteWord(schema, once.rows, w, FALSE)
          IN  /\ once.err = ~schema
              /\ twice.rows = once.rows
              /\ ~Has(once.rows, w)
              /\ \A x \in WordsIn(rows) \ { w } :
                   Has(once.rows, x) /\ RowOf(once.rows, x) = RowOf(rows, x)
              /\ ~Has(rows, w) => once.rows = rows)

\* `-d A` has returned normally on a table that holds "a" and not "A".
C4_Witness ==
  /\ pc[1] = "done"
  /\ action[1] = "delete"
  /\ outcome[1] = "ok"
  /\ flags[1].d.val = << "A" >>
  /\ Has(rows, A)
  /\ rows = store0[1].rows


\* The places of s that cut it into pieces: 0, every comma, and Len(s) + 1.
Cuts(s) == { 0, Len(s) + 1 } \cup { i \in DOMAIN s : s[i] = "," }

\* The k-th of them, in increasing order.
Cut(s, k) == CHOOSE i \in Cuts(s) : Cardinality({ j \in Cuts(s) : j < i }) = k - 1

\* The k-th piece of s between two commas.
Piece(s, k) == SubSeq(s, Cut(s, k) + 1, Cut(s, k + 1) - 1)

\* t without the white space around it.
Trimmed(t) ==
  LET ink == { i \in DOMAIN t : t[i] \notin Space }
  IN  IF ink = { } THEN << >>
      ELSE SubSeq(t, CHOOSE i \in ink : \A j \in ink : i <= j,
                     CHOOSE i \in ink : \A j \in ink : i >= j)

\* t with every capital letter replaced by its small letter.
Lowered(t) ==
  [ i \in DOMAIN t |->
      IF \E k \in 1..26 : UpperSeq[k] = t[i]
        THEN CHOOSE c \in Range(LowerSeq) :
               \E k \in 1..26 : UpperSeq[k] = t[i] /\ LowerSeq[k] = c
        ELSE t[i] ]

\* ^[a-z]+$
AllSmallLetters(t) == t # << >> /\ Range(t) \subseteq Range(LowerSeq)

\* The pieces of s, trimmed and lowercased, that are words, in their order.
KeptPieces(s) ==
  SelectSeq([ k \in 1..(Cardinality(Cuts(s)) - 1) |-> Lowered(Trimmed(Piece(s, k))) ],
            AllSmallLetters)

CatDog ==
  << "C","a","t", ",", " ","d","o","g","2", ",", " ", ",",
     " ","E","L","E","P","H","A","N","T"," " >>

\* C5: filterWords(s) is the pieces of s between commas, trimmed and
\* lowercased, that consist of one or more small letters, in their order and
\* with their duplicates; "Cat, dog2, , ELEPHANT " gives cat, elephant.
C5_FilterWordsIsKeptPieces ==
  /\ action[1] = "add" =>
       /\ words[1] = KeptPieces(flags[1].a.val)
       /\ \A i \in DOMAIN words[1] : AllSmallLetters(words[1][i])
  /\ filterWords(CatDog) = << << "c","a","t" >>, << "e","l","e","p","h","a","n","t" >> >>
  /\ filterWords(<< >>) = << >>

\* "A,2, a" gives a, a: a piece lowercased, one dropped, one trimmed, a
\* duplicate kept.
C5_Witness ==
  /\ action[1] = "add"
  /\ flags[1].a.val = << "A", ",", "2", ",", " ", "a" >>
  /\ words[1] = << A, A >>

\* C6: the words of the records are pairwise distinct and each consists of
\* one or more small letters; a record of a word appears only in the INSERT
\* of an add of that word and disappears only in the DELETE of a delete of
\* that word.
C6_WordsUniqueAndValid ==
  /\ [](/\ \A i \in DOMAIN rows : AllSmallLetters(rows[i].word)
        /\ \A i, j \in DOMAIN rows : rows[i].word = rows[j].word => i = j)
  /\ [][ \A w \in WordsIn(rows) \cup WordsIn(rows') :
           /\ (~Has(rows, w) /\ Has(rows', w)) =>
                action[1] = "add" /\ pc[1] = "create" /\ CurWord(1) = w
           /\ (Has(rows, w) /\ ~Has(rows', w)) =>
                action[1] = "delete" /\ pc[1] = "delete" /\ flags[1].d.val = w ]_vars

\* `-a " A,,2"` has returned: its one word "a" has a record beside "b".
C6_Witness ==
  /\ pc[1] = "done"
  /\ action[1] = "add"
  /\ flags[1].a.val = << " ", "A", ",", ",", "2" >>
  /\ outcome[1] = "ok"
  /\ Has(rows, A) /\ Has(rows, B)

\* The actions in the order of their priority, and when a flag asks for one.
Priority == << "version", "serve", "init", "add", "delete", "show" >>

FlagOf(act) ==
  CASE act = "version" -> "v" [] act = "serve" -> "D" [] act = "init" -> "init"
    [] act = "add" -> "a" [] act = "delete" -> "d" [] act = "show" -> "s"

Present(fl, act) == fl[FlagOf(act)].set

Effective(fl, act) ==
  IF act \in { "add", "delete" }
    THEN fl[FlagOf(act)].val # << >>
    ELSE fl[FlagOf(act)].val = TRUE

\* The first action of Priority that `asks` holds of, if any.
FirstOf(asks(_)) ==
  { Priority[k] : k \in { k \in 1..6 : asks(Priority[k])
                                       /\ \A j \in 1..(k - 1) : ~asks(Priority[j]) } }

\* The store is as the invocation found it.
Untouched(p) == schema = store0[p].schema /\ rows = store0[p].rows

\* C7 as stated: an invocation with a flag set executes exactly one action,
\* the first in priority whose flag is present.
C7_ExactlyOneActionPerInvocation ==
  (pc[1] # "idle" /\ NFlag(flags[1]) >= 1) =>
    LET fl == flags[1]
    IN  { action[1] } = FirstOf(LAMBDA act : Present(fl, act))

\* C7 amended: an invocation executes at most one action, the first in
\* priority whose flag is effective (a boolean flag that is true, -a or -d
\* with a non-empty argument), and none when flags are set and none of them
\* is effective; the store changes only as that action changes it; with no
\* flag, usage is printed and the store is neither opened nor changed.
C7_FirstEffectiveFlagWins ==
  pc[1] # "idle" =>
    LET fl == flags[1]
        first == FirstOf(LAMBDA act : Effective(fl, act))
    IN  /\ NFlag(fl) = 0 =>
             action[1] = "usage" /\ out[1].kind = "usage" /\ ~opened[1] /\ Untouched(1)
        /\ NFlag(fl) >= 1 =>
             IF first = { } THEN action[1] = "none" /\ Untouched(1)
                            ELSE { action[1] } = first
        /\ action[1] \notin { "init", "add", "delete" } => Untouched(1)
        /\ action[1] = "version" => ~opened[1]
        /\ action[1] # "init" => schema = store0[1].schema
        /\ action[1] # "delete" =>
             \A w \in WordsIn(store0[1].rows) : Has(rows, w)
        /\ action[1] # "add" =>
             \A w \in WordsIn(rows) :
               Has(store0[1].rows, w) /\ RowOf(rows, w) = RowOf(store0[1].rows, w)

\* `-a b,a -d a -s` has returned: the add ran, the record of "a" is still there.
C7_Witness ==
  /\ pc[1] = "done"
  /\ action[1] = "add"
  /\ outcome[1] = "ok"
  /\ flags[1].d.val = A
  /\ flags[1].s.val
  /\ Has(store0[1].rows, A)
  /\ Has(rows, A)

\* C8 as stated: an init, add, delete or show invocation in which a store
\* statement has failed ends with log.Fatal's message and exit status, never
\* as a process that returned normally.
C8_StoreErrorsAreFatal ==
  (action[1] \in { "init", "add", "delete", "show" } /\ failed[1] /\ pc[1] = "done") =>
    /\ outcome[1] = "fatal"
    /\ log[1] # << >> /\ log[1][Len(log[1])] = "fatal"

\* The upsert as the contract has it: a new record with count 0, or one more.
Upsert(rws, w) ==
  IF Has(rws, w)
    THEN BumpOnly(rws, w)
    ELSE Append(rws, [ word |-> w, zh_trans |-> NullString,
                       added_count |-> 0, lookup_count |-> 0 ])

RECURSIVE UpsertAll(_, _)
UpsertAll(rws, ws) ==
  IF ws = << >> THEN rws ELSE UpsertAll(Upsert(rws, Head(ws)), Tail(ws))

\* C9: at every point of an add invocation the table is the table it found
\* with the first idx-1 words of filterWords' output upserted one after the
\* other; a write of AddWord that fails ends the process with log.Fatal at
\* that word, and the process ends normally only after the last word.
C9_AddsInOrderAbortOnFailure ==
  /\ [](action[1] = "add" =>
          /\ words[1] = filterWords(flags[1].a.val)
          /\ idx[1] \in 1..(Len(words[1]) + 1)
          /\ rows = UpsertAll(store0[1].rows, SubSeq(words[1], 1, idx[1] - 1))
          /\ (pc[1] = "done" /\ outcome[1] = "ok") => idx[1] = Len(words[1]) + 1
          /\ (pc[1] = "done" /\ outcome[1] = "fatal") => idx[1] <= Len(words[1])
          /\ pc[1] # "done" => idx[1] <= Len(words[1]))
  /\ [][ (pc[1] \in { "create", "incr" } /\ idx'[1] = idx[1]) =>
           /\ pc'[1] = "done" /\ outcome'[1] = "fatal"
           /\ rows' = rows ]_vars

\* `-a a,b,a` died on its third word: "a" and "b" are there, "a" with count 0.
C9_Witness ==
  /\ pc[1] = "done"
  /\ action[1] = "add"
  /\ outcome[1] = "fatal"
  /\ words[1] = << A, B, A >>
  /\ idx[1] = 3
  /\ store0[1].rows = << >>
  /\ Len(rows) = 2
  /\ RowOf(rows, A).added_count = 0

\* The calls of AddWord on w that ended in log.Fatal.
Fatals(w) ==
  Cardinality({ p \in Procs :
    /\ pc[p] = "done" /\ outcome[p] = "fatal"
    /\ idx[p] \in DOMAIN words[p] /\ words[p][idx[p]] = w })

\* C10: with the statements of two add invocations interleaved, a word never
\* has more than one record; its added_count is the number of AddWord calls
\* that returned minus one, so with the calls that died counted too it is
\* lower than (adds - 1) and never higher; a process whose count of 0 is
\* stale when it inserts dies with log.Fatal and changes nothing.
C10_ConcurrentAddsKeepOneRecord ==
  /\ [](\A w \in WordSet :
          /\ Cardinality(RowsOf(rows, w)) <= 1
          /\ Has(rows, w) =>
               /\ RowOf(rows, w).added_count = adds[w] - 1
               /\ RowOf(rows, w).added_count <= (adds[w] + Fatals(w)) - 1
          /\ ~Has(rows, w) => adds[w] = 0)
  /\ [][ \A p \in Procs :
           (pc[p] = "create" /\ Has(rows, CurWord(p)) /\ pc'[p] # "create") =>
             /\ pc'[p] = "done" /\ outcome'[p] = "fatal"
             /\ rows' = rows ]_vars

\* Both processes counted 0 records of "a"; one has inserted it and returned,
\* the other is about to insert.
C10_Witness ==
  /\ words[1] = << A >> /\ words[2] = << A >>
  /\ pc[1] = "done" /\ outcome[1] = "ok" /\ cnt[1] = 0
  /\ pc[2] = "create" /\ cnt[2] = 0 /\ ~failed[2]
  /\ Has(rows, A)


=============================================================================
